---- MODULE Spec2Model ----
(***************************************************************************)
(* CombinedPDF (src/app.py): the state of PDFMergerApp and its event       *)
(* handlers.  Tk runs one handler at a time on the UI thread, so every     *)
(* handler is one atomic action.                                           *)
(*                                                                         *)
(* Paths are records.  A temporary merged.pdf lives in a directory that    *)
(* tempfile.mkdtemp makes fresh and that is written once, so its path is   *)
(* identified with the page sequence written to it.  Zoom factors are      *)
(* kept in thousandths (1.0 = 1000); the slider works in percent.          *)
(*                                                                         *)
(* status_text, msgbox, fault, escaped, unreadable, tmp_created and        *)
(* copied describe what the most recent handler did: the lines it appended *)
(* to the status log, the message box it showed, the failure that occurred *)
(* in it, whether an exception left the handler, which of the selected     *)
(* sources PdfReader could not read, what was created in the temp          *)
(* directory and what shutil.copyfile copied.                              *)
(***************************************************************************)
EXTENDS Integers, Sequences, FiniteSets, TLC

VARIABLES pdf1_path, pdf2_path, merged_pdf_path,
          page_labels,
          preview_zoom, zoom_scale,
          dialogs,
          status_text, msgbox, fault, escaped, unreadable, tmp_created, copied

vars == <<pdf1_path, pdf2_path, merged_pdf_path, page_labels,
          preview_zoom, zoom_scale, dialogs,
          status_text, msgbox, fault, escaped, unreadable, tmp_created, copied>>

paths == <<pdf1_path, pdf2_path, merged_pdf_path>>
preview == <<page_labels>>
zoomvars == <<preview_zoom, zoom_scale>>

(* ---------------------------- bounds ---------------------------------- *)

\* Merge dialogs that may be open at the same time (Toplevels are not modal).
MaxDialogs == 1

(* ------------------------- the environment ---------------------------- *)

\* PDF files on the user's disk: a.pdf has two pages, b.pdf one, z.pdf none.
\* Whether a file can be read and parsed is decided each time it is opened
\* (it may be damaged, locked or removed in the meantime).

UserPages(name) ==
    CASE name = "a.pdf" -> <<1, 2>>
      [] name = "b.pdf" -> <<3>>
      [] OTHER          -> <<>>

\* What a file dialog returns: "" when the user cancels it.  The user picks
\* PDF 1, PDF 2 and the file to preview among these.
Pdf1Choices == {"a.pdf", "z.pdf", ""}
Pdf2Choices == {"b.pdf", "z.pdf", ""}
OpenChoices == {"a.pdf", "b.pdf", ""}
SaveChoices == {"", "out.pdf", "readonly.pdf"}
Writable(dst) == dst = "out.pdf"

\* Outcomes of PdfReader(src) for the two selected sources.
Sources == {"pdf1", "pdf2"}
ReadOutcomes == [Sources -> BOOLEAN]
\* Outcomes of creating and writing the temporary output (lines 254-257).
WriteOutcomes == {"ok", "mkdtemp_fail", "open_fail", "write_fail"}

\* Positions the user drags the slider to (percent), and mouse wheel deltas.
SliderValues == {50, 120, 200}
WheelDeltas == {-120, 120}

(* ------------------------------ paths --------------------------------- *)

None == [kind |-> "none", name |-> "", pages |-> <<>>]
UserPath(name) == [kind |-> "user", name |-> name, pages |-> <<>>]
TmpPath(pages) == [kind |-> "tmp", name |-> "merged.pdf", pages |-> pages]

\* the pages of the document at a path
Pages(path) ==
    CASE path.kind = "user" -> UserPages(path.name)
      [] path.kind = "tmp"  -> path.pages
      [] OTHER              -> <<>>

NotSelected == "Not selected"
\* the text a label gets from os.path.basename(path); which file it names is
\* not kept
Basename(path) == "file name"
NoDialog == [open |-> FALSE, lbl1 |-> "", lbl2 |-> ""]
NewDialog == [open |-> TRUE, lbl1 |-> NotSelected, lbl2 |-> NotSelected]
Dlgs == 1..MaxDialogs

(* ------------------------------- zoom --------------------------------- *)

ZoomMin == 500
ZoomMax == 2000
ZoomStep == 100
ScaleFrom == 50
ScaleTo == 200

Max2(a, b) == IF a > b THEN a ELSE b
Min2(a, b) == IF a < b THEN a ELSE b

\* the upper bound taken from the wrong constant
ClampZoomWide(z) == Max2(ZoomMin, Min2(2500, z))

\* max(0.5, min(2.0, z))
ClampZoom(z) == Max2(ZoomMin, Min2(ZoomMax, z))

\* int(round(z * 100)), z in thousandths
ZoomPercent(z) == (z + 5) \div 10

\* float(value) / 100.0
SliderZoom(value) == value * 10

\* tk.Scale.set: the widget keeps the value inside from_..to
ScaleSet(value) == Max2(ScaleFrom, Min2(ScaleTo, value))

(* ----------------------------- rendering ------------------------------ *)

\* _render_preview(pdf_path): the possible results.  The widgets of the
\* previous render are destroyed first; a failing fitz.open is logged and
\* swallowed; a page that fails to render raises out of the loop with the
\* pages before it already shown.
\* lines 297-304: the image of a page, rendered at the clamped zoom factor
PageImage(page, zoom) == [page |-> page, zoom |-> ClampZoom(zoom)]

RenderResult(pages, zoom, log, raised, flt) ==
    [labels |-> [i \in 1..Len(pages) |-> PageImage(pages[i], zoom)],
     log    |-> log, raised |-> raised, fault |-> flt]

RenderPreview(path, zoom) ==
    LET pg == Pages(path) IN
    {RenderResult(<<>>, zoom, <<"Error opening merged PDF for preview">>, FALSE, "preview_open")}
    \cup {RenderResult(pg, zoom, <<"Rendered pages">>, FALSE, "none")}
    \cup {RenderResult(SubSeq(pg, 1, k), zoom, <<>>, TRUE, "render") :
            k \in 0..(Len(pg) - 1)}

(* ----------------------------- merging -------------------------------- *)

\* "and" in place of "or"
MissingFilesBoth(p1, p2) == p1 = None /\ p2 = None

\* line 243
MissingFiles(p1, p2) == p1 = None \/ p2 = None

\* the sources read in the order of their numbers
MergeOrderListed == <<"pdf1", "pdf2">>

\* line 249: the order in which the sources are read
MergeOrder == <<"pdf2", "pdf1">>

\* a source that cannot be read is skipped instead of aborting the merge
RECURSIVE AddSourcesSkip(_, _, _, _)
AddSourcesSkip(srcs, path, readable, writer) ==
    IF srcs = <<>> THEN [ok |-> TRUE, pages |-> writer]
    ELSE IF ~readable[Head(srcs)]
         THEN AddSourcesSkip(Tail(srcs), path, readable, writer)
         ELSE AddSourcesSkip(Tail(srcs), path, readable,
                             writer \o Pages(path[Head(srcs)]))

\* lines 249-252: PdfReader(src) for each source in turn, its pages appended
\* to the writer; readable[s] tells whether PdfReader can read source s
RECURSIVE AddSources(_, _, _, _)
AddSources(srcs, path, readable, writer) ==
    IF srcs = <<>> THEN [ok |-> TRUE, pages |-> writer]
    ELSE IF ~readable[Head(srcs)] THEN [ok |-> FALSE, pages |-> writer]
    ELSE AddSources(Tail(srcs), path, readable, writer \o Pages(path[Head(srcs)]))

\* what lines 254-257 leave in the temp directory
Created(w) ==
    CASE w = "ok"           -> "file"
      [] w = "write_fail"   -> "partial"
      [] w = "open_fail"    -> "dir"
      [] OTHER              -> "none"

WriteFault(w) ==
    CASE w = "write_fail"   -> "write"
      [] w = "open_fail"    -> "open_out"
      [] OTHER              -> "mkdtemp"

\* lines 262-264
MergeError(flt, created, log) ==
    /\ status_text' = log \o <<"Error merging PDFs">>
    /\ msgbox' = "Merge Error"
    /\ fault' = flt
    /\ escaped' = FALSE
    /\ tmp_created' = created
    /\ copied' = None

\* the assignment of line 259 left out
ExposedPrevious(merged_path) == merged_pdf_path

\* line 259: the path exposed after the write
Exposed(merged_path) == merged_path

Merge ==
    /\ UNCHANGED <<pdf1_path, pdf2_path, zoomvars>>
    /\ IF MissingFiles(pdf1_path, pdf2_path)
       THEN /\ msgbox' = "Missing Files"
            /\ status_text' = <<>>
            /\ fault' = "missing"
            /\ escaped' = FALSE
            /\ unreadable' = {}
            /\ tmp_created' = "none"
            /\ copied' = None
            /\ UNCHANGED <<merged_pdf_path, preview>>
       ELSE \E readable \in ReadOutcomes :
            LET r == AddSources(MergeOrder, [pdf1 |-> pdf1_path, pdf2 |-> pdf2_path],
                                readable, <<>>) IN
            /\ unreadable' = {s \in Sources : ~readable[s]}
            /\ IF ~r.ok
               THEN /\ MergeError("read", "none", <<>>)
                    /\ UNCHANGED <<merged_pdf_path, preview>>
               ELSE \E w \in WriteOutcomes :
                    IF w # "ok"
                    THEN /\ MergeError(WriteFault(w), Created(w), <<>>)
                         /\ UNCHANGED <<merged_pdf_path, preview>>
                    ELSE LET merged_path == TmpPath(r.pages) IN
                         /\ merged_pdf_path' = Exposed(merged_path)
                         /\ \E rr \in RenderPreview(merged_path, preview_zoom) :
                              /\ page_labels' = rr.labels
                              /\ IF rr.raised
                                 THEN MergeError("render", "file", <<"Merged created">>)
                                 ELSE /\ status_text' = <<"Merged created">> \o rr.log
                                      /\ msgbox' = "none"
                                      /\ fault' = rr.fault
                                      /\ escaped' = FALSE
                                      /\ tmp_created' = "file"
                                      /\ copied' = None

\* _merge_and_close: the Merge button of dialog d
MergeAndClose(d) ==
    /\ dialogs[d].open
    /\ Merge
    /\ dialogs' = [dialogs EXCEPT ![d] = NoDialog]

(* ------------------------- the other handlers ------------------------- *)

Quiet == /\ msgbox' = "none"
         /\ fault' = "none"
         /\ escaped' = FALSE
         /\ unreadable' = {}
         /\ tmp_created' = "none"
         /\ copied' = None

\* a render outside _merge: nothing catches a page that fails
RenderUncaught(path, log, zoom) ==
    \E rr \in RenderPreview(path, zoom) :
        /\ page_labels' = rr.labels
        /\ status_text' = log \o rr.log
        /\ msgbox' = "none"
        /\ fault' = rr.fault
        /\ escaped' = rr.raised
        /\ unreadable' = {}
        /\ tmp_created' = "none"
        /\ copied' = None

OpenMergeDialog ==
    /\ \E d \in Dlgs :
         /\ ~dialogs[d].open
         /\ \A e \in 1..(d - 1) : dialogs[e].open
         /\ dialogs' = [dialogs EXCEPT ![d] = NewDialog]
    /\ status_text' = <<>>
    /\ Quiet
    /\ UNCHANGED <<paths, preview, zoomvars>>

choose1(d) ==
    /\ dialogs[d].open
    /\ \E path \in Pdf1Choices :
         IF path # ""
         THEN /\ pdf1_path' = UserPath(path)
              /\ dialogs' = [dialogs EXCEPT ![d].lbl1 = Basename(path)]
              /\ status_text' = <<"Selected PDF 1">>
         ELSE /\ UNCHANGED <<pdf1_path, dialogs>>
              /\ status_text' = <<>>
    /\ Quiet
    /\ UNCHANGED <<pdf2_path, merged_pdf_path, preview, zoomvars>>

choose2(d) ==
    /\ dialogs[d].open
    /\ \E path \in Pdf2Choices :
         IF path # ""
         THEN /\ pdf2_path' = UserPath(path)
              /\ dialogs' = [dialogs EXCEPT ![d].lbl2 = Basename(path)]
              /\ status_text' = <<"Selected PDF 2">>
         ELSE /\ UNCHANGED <<pdf2_path, dialogs>>
              /\ status_text' = <<>>
    /\ Quiet
    /\ UNCHANGED <<pdf1_path, merged_pdf_path, preview, zoomvars>>

\* the Cancel button: dlg.destroy
Cancel(d) ==
    /\ dialogs[d].open
    /\ dialogs' = [dialogs EXCEPT ![d] = NoDialog]
    /\ status_text' = <<>>
    /\ Quiet
    /\ UNCHANGED <<paths, preview, zoomvars>>

OpenSinglePdf ==
    /\ \E path \in OpenChoices :
         IF path # ""
         THEN /\ merged_pdf_path' = UserPath(path)
              /\ RenderUncaught(UserPath(path), <<"Opened PDF for preview">>, preview_zoom)
         ELSE /\ UNCHANGED <<merged_pdf_path, preview>>
              /\ status_text' = <<>>
              /\ Quiet
    /\ UNCHANGED <<pdf1_path, pdf2_path, zoomvars, dialogs>>

SaveAs ==
    /\ IF merged_pdf_path = None
       THEN /\ msgbox' = "Nothing to Save"
            /\ status_text' = <<>>
            /\ fault' = "nothing"
            /\ copied' = None
       ELSE \E dst \in SaveChoices :
            IF dst = ""
            THEN /\ msgbox' = "none"
                 /\ status_text' = <<>>
                 /\ fault' = "none"
                 /\ copied' = None
            ELSE IF Writable(dst)
            THEN /\ msgbox' = "none"
                 /\ status_text' = <<"Saved merged PDF">>
                 /\ fault' = "none"
                 /\ copied' = merged_pdf_path
            ELSE /\ msgbox' = "Save Error"
                 /\ status_text' = <<"Error saving file">>
                 /\ fault' = "save"
                 /\ copied' = None
    /\ escaped' = FALSE
    /\ unreadable' = {}
    /\ tmp_created' = "none"
    /\ UNCHANGED <<paths, preview, zoomvars, dialogs>>

\* _clear_all without the reset of merged_pdf_path
ClearAllKeepsMerged ==
    /\ pdf1_path' = None
    /\ pdf2_path' = None
    /\ page_labels' = <<>>
    /\ status_text' = <<"Cleared selection and preview.">>
    /\ msgbox' = "none"
    /\ fault' = "none"
    /\ escaped' = FALSE
    /\ unreadable' = {}
    /\ tmp_created' = "none"
    /\ copied' = None
    /\ UNCHANGED <<merged_pdf_path, preview_zoom, zoom_scale, dialogs>>

\* _clear_all with _render_preview_empty
ClearAll ==
    /\ pdf1_path' = None
    /\ pdf2_path' = None
    /\ merged_pdf_path' = None
    /\ page_labels' = <<>>
    /\ status_text' = <<"Cleared selection and preview.">>
    /\ Quiet
    /\ UNCHANGED <<zoomvars, dialogs>>

\* the tail shared by the zoom handlers (lines 363-364 and 371-372)
Rerender(zoom) ==
    IF merged_pdf_path # None
    THEN RenderUncaught(merged_pdf_path, <<>>, zoom)
    ELSE /\ status_text' = <<>>
         /\ Quiet
         /\ UNCHANGED preview

ChangeZoom(delta) ==
    /\ preview_zoom' = ClampZoom(preview_zoom + delta)
    /\ zoom_scale' = ScaleSet(ZoomPercent(preview_zoom'))
    /\ Rerender(ClampZoom(preview_zoom + delta))
    /\ UNCHANGED <<paths, dialogs>>

\* the "-" and "+" buttons
ZoomButton == \E delta \in {-ZoomStep, ZoomStep} : ChangeZoom(delta)

\* the slider's command: run when the user moves the slider, and by tk.Scale
\* with the value just set after zoom_scale.set()
OnZoomSlider ==
    \E value \in SliderValues \cup {zoom_scale} :
        /\ zoom_scale' = value
        /\ preview_zoom' = SliderZoom(value)
        /\ Rerender(SliderZoom(value))
        /\ UNCHANGED <<paths, dialogs>>

OnMousewheelZoom ==
    \E delta \in WheelDeltas :
        LET direction == IF delta > 0 THEN 1 ELSE -1 IN
        ChangeZoom(ZoomStep * direction)

(* --------------------------- specification ---------------------------- *)

Init ==
    /\ pdf1_path = None
    /\ pdf2_path = None
    /\ merged_pdf_path = None
    /\ page_labels = <<>>
    /\ preview_zoom = 1000
    /\ zoom_scale = 100
    /\ dialogs = [d \in Dlgs |-> NoDialog]
    /\ status_text = <<"Ready. Use Open PDF or Merge PDF.">>
    /\ msgbox = "none"
    /\ fault = "none"
    /\ escaped = FALSE
    /\ unreadable = {}
    /\ tmp_created = "none"
    /\ copied = None

Next ==
    \/ OpenMergeDialog
    \/ \E d \in Dlgs : choose1(d)
    \/ \E d \in Dlgs : choose2(d)
    \/ \E d \in Dlgs : MergeAndClose(d)
    \/ \E d \in Dlgs : Cancel(d)
    \/ OpenSinglePdf
    \/ SaveAs
    \/ ClearAll
    \/ ZoomButton
    \/ OnZoomSlider
    \/ OnMousewheelZoom

Spec == Init /\ [][Next]_vars


(* ------------------------------ claims -------------------------------- *)

AnyMerge == \E d \in Dlgs : MergeAndClose(d)
SomeDialogOpen == \E d \in Dlgs : dialogs[d].open
FewerThanTwo == pdf1_path = None \/ pdf2_path = None
AllUnset == pdf1_path = None /\ pdf2_path = None /\ merged_pdf_path = None

\* the failures of user actions
Failures == {"missing", "read", "mkdtemp", "open_out", "write",
             "preview_open", "render", "save"}

\* C1 as stated: after a Merge that wrote its output, the output's pages are
\* the pages of PDF 1 followed by the pages of PDF 2.
C1_SourceListOrder ==
    tmp_created = "file" =>
        merged_pdf_path = TmpPath(Pages(pdf1_path) \o Pages(pdf2_path))

\* C1 amended: after a Merge that wrote its output, the output's pages are the
\* pages of PDF 2 (the base) in their order followed by the pages of PDF 1
\* (appended) in their order, and their number is the sum of the two sources'.
C1_BaseThenAppended ==
    tmp_created = "file" =>
        /\ merged_pdf_path = TmpPath(Pages(pdf2_path) \o Pages(pdf1_path))
        /\ Len(merged_pdf_path.pages) = Len(Pages(pdf1_path)) + Len(Pages(pdf2_path))

C1_Witness ==
    /\ tmp_created = "file"
    /\ pdf1_path = UserPath("a.pdf")
    /\ pdf2_path = UserPath("b.pdf")
    /\ merged_pdf_path.pages = <<3, 1, 2>>

\* C2: a Merge with PDF 1 or PDF 2 unset is rejected with the Missing Files
\* warning; nothing is created in the temp directory, and merged_pdf_path and
\* the preview keep their values.
C2_RejectedUnchanged ==
    [][(AnyMerge /\ FewerThanTwo) =>
          /\ msgbox' = "Missing Files"
          /\ tmp_created' = "none"
          /\ merged_pdf_path' = merged_pdf_path
          /\ page_labels' = page_labels]_vars

C2_Witness ==
    /\ fault = "missing"
    /\ pdf1_path # None
    /\ merged_pdf_path # None
    /\ page_labels # <<>>

\* C3: when PdfReader cannot read one of the selected sources, Merge creates
\* nothing in the temp directory, whichever source it is.
C3_NoPartialOutput ==
    unreadable # {} => tmp_created = "none"

\* the source read second fails after the first was read
C3_Witness ==
    /\ unreadable = {"pdf1"}
    /\ Pages(pdf2_path) # <<>>
    /\ msgbox = "Merge Error"

\* C4 as stated: a Merge that ends in the error branch leaves merged_pdf_path
\* as it was.
C4_ErrorKeepsMergedPath ==
    [][msgbox' = "Merge Error" => merged_pdf_path' = merged_pdf_path]_vars

\* C5 as stated: every failure of a user action is caught in the handler,
\* logged to the status area and shown in a message box.
C5_LoggedAndShown ==
    fault \in Failures =>
        /\ ~escaped
        /\ status_text # <<>>
        /\ msgbox # "none"

\* C6: after a failed operation every handler can still run (the main
\* window's directly, the merge dialog's in an open dialog, and a dialog is
\* open or can be opened), and a Merge with both sources selected can still
\* succeed, setting merged_pdf_path to the new output.
MergeSucceeds(d) ==
    /\ MergeAndClose(d)
    /\ fault' = "none"
    /\ tmp_created' = "file"
    /\ merged_pdf_path' = TmpPath(Pages(pdf2_path) \o Pages(pdf1_path))

C7_OnlyMergedOutput ==
    /\ merged_pdf_path.kind \in {"none", "tmp"}
    /\ copied.kind \in {"none", "tmp"}

\* C8: preview_zoom stays within 50%..200%, the slider shows preview_zoom in
\* percent, every page shown was rendered at a factor within 50%..200%, and a
\* zoom step at a bound leaves preview_zoom unchanged.
C8_ZoomRange ==
    /\ [](/\ preview_zoom \in ZoomMin..ZoomMax
          /\ zoom_scale * 10 = preview_zoom
          /\ \A i \in 1..Len(page_labels) : page_labels[i].zoom \in ZoomMin..ZoomMax)
    /\ [][/\ (ChangeZoom(ZoomStep) /\ preview_zoom = ZoomMax) => preview_zoom' = ZoomMax
          /\ (ChangeZoom(-ZoomStep) /\ preview_zoom = ZoomMin) => preview_zoom' = ZoomMin]_vars

C8_Witness ==
    /\ preview_zoom = ZoomMax
    /\ zoom_scale = 200
    /\ page_labels # <<>>
    /\ page_labels[1].zoom = ZoomMax

\* C9: Clear unsets pdf1_path, pdf2_path and merged_pdf_path, empties the
\* preview and keeps preview_zoom; while the three are unset the preview is
\* empty, Merge is refused with Missing Files, Save As with Nothing to Save,
\* and the zoom handlers render nothing.
C9_ClearResets ==
    /\ [](AllUnset => page_labels = <<>>)
    /\ [][/\ ClearAll => (AllUnset' /\ page_labels' = <<>> /\ preview_zoom' = preview_zoom)
          /\ (AllUnset /\ AnyMerge) => (msgbox' = "Missing Files" /\ AllUnset')
          /\ (AllUnset /\ SaveAs) => (msgbox' = "Nothing to Save" /\ copied' = None)
          /\ (AllUnset /\ (ZoomButton \/ OnZoomSlider \/ OnMousewheelZoom)) =>
                (page_labels' = <<>> /\ status_text' = <<>>)]_vars

\* just after Clear, pressed at a zoom other than 100% with a merge dialog open
C9_Witness ==
    /\ status_text = <<"Cleared selection and preview.">>
    /\ AllUnset
    /\ preview_zoom # 1000
    /\ SomeDialogOpen

\* C10 as stated: a merge dialog that shows "Not selected" for a source has
\* that source unset.
C10_LabelsAgree ==
    \A d \in Dlgs :
        dialogs[d].open =>
            /\ dialogs[d].lbl1 = NotSelected => pdf1_path = None
            /\ dialogs[d].lbl2 = NotSelected => pdf2_path = None

====
